---- MODULE Spec2Model ----
(***************************************************************************)
(* Model of histomicstk.features.ExtractNuclearFeatures: the aggregator    *)
(* that computes the region properties of a label image, optionally        *)
(* derives a cytoplasm mask, fans out to the enabled feature routines,     *)
(* prefixes their column names and concatenates the per-group tables.      *)
(*                                                                         *)
(* Images are one-dimensional strips of pixels.  A table is a record       *)
(*   [site, columns, rows]: columns is the sequence of column names (a     *)
(*   name is a sequence of dot-separated segments), rows the sequence of   *)
(*   labels whose features the rows hold (position i is index i-1 of the   *)
(*   default RangeIndex).  Tables live in a heap and are handled by        *)
(*   reference, so that the in-place renaming of columns is visible.       *)
(***************************************************************************)
EXTENDS Integers, Sequences, FiniteSets, TLC

\* ------------------------------------------------------------- bounds
ImgLen == 3
MaxLabel == 2
NarrowWidth == 1
MaxCalls == 2

\* ------------------------------------------------- program constants
fsd_k == 128
fsd_freq_bins == 6
DefaultCytoWidth == 8

VARIABLES
    im_label,                   \* argument: labelled mask, Seq of pixel labels
    im_cytoplasm,               \* argument: "None" or "im_cytoplasm"
    cyto_width,                 \* argument
    morphometry_features_flag,  \* argument
    fsd_features_flag,          \* argument
    intensity_features_flag,    \* argument
    gradient_features_flag,     \* argument
    fault,                      \* the call site whose collaborator fails on these inputs, or "none"
    pc,                         \* position in ExtractNuclearFeatures, "idle" between calls
    feature_list,               \* local: list of references to tables
    nuclei_props,               \* local
    cyto_mask,                  \* local
    cytoplasm_props,            \* local
    heap,                       \* the tables allocated so far
    log,                        \* collaborator invocations of the current call
    results                     \* outcome of every finished call

vars == <<im_label, im_cytoplasm, cyto_width, morphometry_features_flag,
          fsd_features_flag, intensity_features_flag, gradient_features_flag,
          fault, pc, feature_list, nuclei_props, cyto_mask, cytoplasm_props,
          heap, log, results>>

args == <<im_label, im_cytoplasm, cyto_width, morphometry_features_flag,
          fsd_features_flag, intensity_features_flag, gradient_features_flag,
          fault>>

im_nuclei == "im_nuclei"

Sites == {"regionprops_label", "neighborhood", "regionprops_cyto", "morph",
          "fsd", "int_nuc", "int_cyto", "grad_nuc", "grad_cyto"}

FeatureSites == {"morph", "fsd", "int_nuc", "int_cyto", "grad_nuc", "grad_cyto"}

CytoSites == {"int_cyto", "grad_cyto"}

Widths == {NarrowWidth, DefaultCytoWidth}

Images == [1..ImgLen -> 0..MaxLabel]

\* ------------------------------------------------------------ values
Undef == [def |-> FALSE]

NoArg == [def |-> FALSE]

NaN == 0

Max(S) == CHOOSE x \in S : \A y \in S : y <= x

Min(S) == CHOOSE x \in S : \A y \in S : x <= y

RECURSIVE SortedSeq(_)
SortedSeq(S) == IF S = {} THEN <<>>
                ELSE <<Min(S)>> \o SortedSeq(S \ {Min(S)})

Abs(x) == IF x < 0 THEN -x ELSE x

\* the distinct positive labels of a strip of pixels
Labels(px) == {px[p] : p \in DOMAIN px} \ {0}

Mask(name, px) == [def |-> TRUE, name |-> name, px |-> px]

LabelMask == Mask("im_label", im_label)

\* ------------------------------------------------------ collaborators
\* skimage.measure.regionprops: one entry per label present, ascending
regionprops(mask) ==
    [def |-> TRUE, mask |-> mask.name, labels |-> SortedSeq(Labels(mask.px))]

\* htk_label.ComputeNeighborhoodMask: every background pixel within
\* neigh_width of an object gets that object's label, objects being written
\* in ascending order; pixels of the objects themselves stay 0
ComputeNeighborhoodMask(px, neigh_width) ==
    [p \in DOMAIN px |->
        LET near == {px[q] : q \in {r \in DOMAIN px :
                                      px[r] > 0 /\ Abs(r - p) <= neigh_width}}
        IN  IF px[p] > 0 \/ near = {} THEN 0 ELSE Max(near)]

\* the column names each feature routine returns
RawColumns(site) ==
    CASE site = "morph" -> << <<"Size", "Area">>, <<"Shape", "Circularity">> >>
      [] site = "fsd" -> << <<"FSD", "1">>, <<"FSD", "2">> >>
      [] site \in {"int_nuc", "int_cyto"} ->
            << <<"Intensity", "Min">>, <<"Intensity", "Max">> >>
      [] site \in {"grad_nuc", "grad_cyto"} ->
            << <<"Gradient", "Mag", "Mean">>, <<"Gradient", "Canny", "Sum">> >>

\* a feature routine returns a fresh table with one row per region of the
\* mask it is given: the regions of rprops when passed, its own
\* regionprops(mask) otherwise
ComputeFeatures(site, mask, rprops) ==
    [site |-> site,
     columns |-> RawColumns(site),
     rows |-> IF rprops.def THEN rprops.labels ELSE regionprops(mask).labels]

CollaboratorError(site) == [type |-> "CollaboratorError", site |-> site]

Fn(site) ==
    CASE site \in {"regionprops_label", "regionprops_cyto"} -> "regionprops"
      [] site = "neighborhood" -> "ComputeNeighborhoodMask"
      [] site = "morph" -> "ComputeMorphometryFeatures"
      [] site = "fsd" -> "ComputeFSDFeatures"
      [] site \in {"int_nuc", "int_cyto"} -> "ComputeIntensityFeatures"
      [] site \in {"grad_nuc", "grad_cyto"} -> "ComputeGradientFeatures"

\* ---------------------------------------------------------- aggregator
\* variant: the table is inserted at the front of the list
ListPrepend(l, ref) == <<ref>> \o l

\* list.append
ListAppend(l, ref) == Append(l, ref)

\* ['Nucleus.' + col for col in columns]
PrefixColumns(prefix, columns) ==
    [i \in DOMAIN columns |-> <<prefix>> \o columns[i]]

NucleusPrefix == "Nucleus"

\* variant: the nucleus renaming copied unchanged to the cytoplasm groups
CytoplasmPrefixCopied == "Nucleus"

CytoplasmPrefix == "Cytoplasm"

\* table.columns = [...]: the table object is changed in place
Rename(h, ref, prefix) ==
    [h EXCEPT ![ref].columns = PrefixColumns(prefix, @)]

\* pd.concat(tables, axis=1): outer join on the RangeIndex of the tables,
\* columns in list order, missing cells NaN
RECURSIVE ConcatColumns(_, _)
ConcatColumns(tables, n) ==
    IF tables = <<>> THEN <<>>
    ELSE LET t == Head(tables)
         IN  [i \in DOMAIN t.columns |->
                 [name |-> t.columns[i],
                  site |-> t.site,
                  data |-> [r \in 1..n |->
                               IF r <= Len(t.rows) THEN t.rows[r] ELSE NaN]]]
             \o ConcatColumns(Tail(tables), n)

Concat(tables) ==
    [index |-> Max({Len(tables[i].rows) : i \in DOMAIN tables}),
     columns |-> ConcatColumns(tables,
                    Max({Len(tables[i].rows) : i \in DOMAIN tables}))]

NoTable == [index |-> 0, columns |-> <<>>]

NoError == [type |-> "none", site |-> "none"]

\* variant: the exception is caught and re-raised wrapped
UnwindWrapped(e) ==
    [kind |-> "raised", fdata |-> NoTable,
     error |-> [type |-> "FeatureComputationError", site |-> e.site]]

\* an exception leaving the function: there is no try/except in it
Unwind(e) == [kind |-> "raised", fdata |-> NoTable, error |-> e]

Return(t) == [kind |-> "returned", fdata |-> t, error |-> NoError]

\* variant: the cytoplasm groups measured on the nucleus label image
CytoCallMaskLabel == LabelMask

\* what the cytoplasm-mask feature calls are given
CytoCallMask == cyto_mask

CytoCallImage == im_cytoplasm

\* variant: rprops=nuclei_props copied to the cytoplasm calls
CytoCallRpropsNuclei == nuclei_props

CytoCallRprops == NoArg

NucleiCallRprops == nuclei_props

NeighWidthArg == cyto_width

\* the conditions guarding each feature group
MorphometryEnabled == morphometry_features_flag

FSDEnabled == fsd_features_flag

NucleusIntensityEnabled == intensity_features_flag

\* variant: the test for the cytoplasm image left out
CytoplasmIntensityEnabledNoImageTest == intensity_features_flag

CytoplasmIntensityEnabled ==
    intensity_features_flag /\ im_cytoplasm # "None"

\* variant: the gradient group guarded by the intensity flag
NucleusGradientEnabledByIntensity == intensity_features_flag

NucleusGradientEnabled == gradient_features_flag

CytoplasmGradientEnabled ==
    gradient_features_flag /\ im_cytoplasm # "None"

Entry(site, mask, image, rprops, extra) ==
    [site |-> site, fn |-> Fn(site), mask |-> mask, image |-> image,
     rprops |-> rprops, extra |-> extra, raised |-> FALSE, ret |-> <<>>]

Finish(outcome) ==
    /\ results' = Append(results, outcome)
    /\ pc' = "idle"

\* a feature group: skipped when its condition is false; otherwise the
\* routine is called, its columns renamed and the table appended
Group(here, next, enabled, site, mask, image, rprops, extra, prefix) ==
    /\ pc = here
    /\ IF ~enabled
       THEN /\ pc' = next
            /\ UNCHANGED <<feature_list, heap, log, results>>
       ELSE IF ~mask.def
       THEN /\ Finish(Unwind([type |-> "UnboundLocalError", site |-> site]))
            /\ UNCHANGED <<feature_list, heap, log>>
       ELSE IF fault = site
       THEN /\ log' = Append(log, [Entry(site, mask, image, rprops, extra)
                                      EXCEPT !.raised = TRUE])
            /\ Finish(Unwind(CollaboratorError(site)))
            /\ UNCHANGED <<feature_list, heap>>
       ELSE LET t == ComputeFeatures(site, mask, rprops)
                ref == Len(heap) + 1
            IN  /\ log' = Append(log, [Entry(site, mask, image, rprops, extra)
                                          EXCEPT !.ret = t.columns])
                /\ heap' = IF prefix = ""
                           THEN Append(heap, t)
                           ELSE Rename(Append(heap, t), ref, prefix)
                /\ feature_list' = ListAppend(feature_list, ref)
                /\ pc' = next
                /\ UNCHANGED results
    /\ UNCHANGED <<args, nuclei_props, cyto_mask, cytoplasm_props>>

\* variant: feature_list outlives the call (a list shared between calls)
BeginKeepList ==
    /\ pc = "idle"
    /\ Len(results) < MaxCalls
    /\ nuclei_props' = Undef
    /\ cyto_mask' = Undef
    /\ cytoplasm_props' = Undef
    /\ log' = <<>>
    /\ pc' = "l105"
    /\ UNCHANGED <<args, feature_list, heap, results>>

\* line 102
Begin ==
    /\ pc = "idle"
    /\ Len(results) < MaxCalls
    /\ feature_list' = <<>>
    /\ nuclei_props' = Undef
    /\ cyto_mask' = Undef
    /\ cytoplasm_props' = Undef
    /\ log' = <<>>
    /\ pc' = "l105"
    /\ UNCHANGED <<args, heap, results>>

\* line 105
NucleiProps ==
    /\ pc = "l105"
    /\ IF fault = "regionprops_label"
       THEN /\ log' = Append(log, [Entry("regionprops_label", LabelMask, "none",
                                         NoArg, <<>>) EXCEPT !.raised = TRUE])
            /\ Finish(Unwind(CollaboratorError("regionprops_label")))
            /\ UNCHANGED nuclei_props
       ELSE /\ log' = Append(log, Entry("regionprops_label", LabelMask, "none",
                                        NoArg, <<>>))
            /\ nuclei_props' = regionprops(LabelMask)
            /\ pc' = "l108"
            /\ UNCHANGED results
    /\ UNCHANGED <<args, feature_list, cyto_mask, cytoplasm_props, heap>>

\* lines 108-111
CytoMask ==
    /\ pc = "l108"
    /\ IF im_cytoplasm = "None"
       THEN /\ pc' = "l116"
            /\ UNCHANGED <<log, cyto_mask, results>>
       ELSE IF fault = "neighborhood"
       THEN /\ log' = Append(log, [Entry("neighborhood", LabelMask, "none",
                                         NoArg, <<NeighWidthArg>>)
                                      EXCEPT !.raised = TRUE])
            /\ Finish(Unwind(CollaboratorError("neighborhood")))
            /\ UNCHANGED cyto_mask
       ELSE /\ log' = Append(log, Entry("neighborhood", LabelMask, "none",
                                        NoArg, <<NeighWidthArg>>))
            /\ cyto_mask' = Mask("cyto_mask",
                                 ComputeNeighborhoodMask(im_label, NeighWidthArg))
            /\ pc' = "l113"
            /\ UNCHANGED results
    /\ UNCHANGED <<args, feature_list, nuclei_props, cytoplasm_props, heap>>

\* line 113
CytoProps ==
    /\ pc = "l113"
    /\ IF fault = "regionprops_cyto"
       THEN /\ log' = Append(log, [Entry("regionprops_cyto", cyto_mask, "none",
                                         NoArg, <<>>) EXCEPT !.raised = TRUE])
            /\ Finish(Unwind(CollaboratorError("regionprops_cyto")))
            /\ UNCHANGED cytoplasm_props
       ELSE /\ log' = Append(log, Entry("regionprops_cyto", cyto_mask, "none",
                                        NoArg, <<>>))
            /\ cytoplasm_props' = regionprops(cyto_mask)
            /\ pc' = "l116"
            /\ UNCHANGED results
    /\ UNCHANGED <<args, feature_list, nuclei_props, cyto_mask, heap>>

\* lines 116-120
Morphometry ==
    Group("l116", "l123", MorphometryEnabled, "morph", LabelMask, "none",
          NucleiCallRprops, <<>>, "")

\* lines 123-128
FSD ==
    Group("l123", "l131", FSDEnabled, "fsd", LabelMask, "none",
          NucleiCallRprops, <<fsd_k, fsd_freq_bins, cyto_width>>, "")

\* lines 131-138
NucleusIntensity ==
    Group("l131", "l141", NucleusIntensityEnabled, "int_nuc", LabelMask,
          im_nuclei, NucleiCallRprops, <<>>, NucleusPrefix)

\* lines 141-147
CytoplasmIntensity ==
    Group("l141", "l150", CytoplasmIntensityEnabled, "int_cyto", CytoCallMask,
          CytoCallImage, CytoCallRprops, <<>>, CytoplasmPrefix)

\* lines 150-157
NucleusGradient ==
    Group("l150", "l160", NucleusGradientEnabled, "grad_nuc", LabelMask,
          im_nuclei, NucleiCallRprops, <<>>, NucleusPrefix)

\* lines 160-166
CytoplasmGradient ==
    Group("l160", "l169", CytoplasmGradientEnabled, "grad_cyto", CytoCallMask,
          CytoCallImage, CytoCallRprops, <<>>, CytoplasmPrefix)

\* lines 169-171: pd.concat raises ValueError on an empty list
Merge ==
    /\ pc = "l169"
    /\ IF feature_list = <<>>
       THEN Finish(Unwind([type |-> "ValueError", site |-> "concat"]))
       ELSE Finish(Return(Concat([i \in DOMAIN feature_list |->
                                     heap[feature_list[i]]])))
    /\ UNCHANGED <<args, feature_list, nuclei_props, cyto_mask,
                   cytoplasm_props, heap, log>>

Init ==
    /\ im_label \in Images
    /\ im_cytoplasm \in {"None", "im_cytoplasm"}
    /\ cyto_width \in Widths
    /\ morphometry_features_flag \in BOOLEAN
    /\ fsd_features_flag \in BOOLEAN
    /\ intensity_features_flag \in BOOLEAN
    /\ gradient_features_flag \in BOOLEAN
    /\ fault \in Sites \cup {"none"}
    /\ pc = "idle"
    /\ feature_list = <<>>
    /\ nuclei_props = Undef
    /\ cyto_mask = Undef
    /\ cytoplasm_props = Undef
    /\ heap = <<>>
    /\ log = <<>>
    /\ results = <<>>

Next ==
    \/ Begin
    \/ NucleiProps
    \/ CytoMask
    \/ CytoProps
    \/ Morphometry
    \/ FSD
    \/ NucleusIntensity
    \/ CytoplasmIntensity
    \/ NucleusGradient
    \/ CytoplasmGradient
    \/ Merge

Spec == Init /\ [][Next]_vars

\* ------------------------------------------------------------ properties
Done == pc = "idle" /\ results # <<>>

Last == results[Len(results)]

HasCytoplasm == im_cytoplasm # "None"

AllFlags ==
    /\ morphometry_features_flag
    /\ fsd_features_flag
    /\ intensity_features_flag
    /\ gradient_features_flag

NoFlags ==
    /\ ~morphometry_features_flag
    /\ ~fsd_features_flag
    /\ ~intensity_features_flag
    /\ ~gradient_features_flag

\* position of a group in the documented sequence
Rank(site) ==
    CASE site = "morph" -> 1
      [] site = "fsd" -> 2
      [] site = "int_nuc" -> 3
      [] site = "int_cyto" -> 4
      [] site = "grad_nuc" -> 5
      [] site = "grad_cyto" -> 6

\* the groups the arguments enable
EnabledSites ==
    {s \in FeatureSites :
        \/ s = "morph" /\ morphometry_features_flag
        \/ s = "fsd" /\ fsd_features_flag
        \/ s = "int_nuc" /\ intensity_features_flag
        \/ s = "grad_nuc" /\ gradient_features_flag
        \/ s = "int_cyto" /\ intensity_features_flag /\ im_cytoplasm # "None"
        \/ s = "grad_cyto" /\ gradient_features_flag /\ im_cytoplasm # "None"}

OutSites(t) == {t.columns[i].site : i \in DOMAIN t.columns}

ColumnsOf(t, s) == SelectSeq(t.columns, LAMBDA c : c.site = s)

LogIndexes(P(_)) == {i \in DOMAIN log : P(log[i])}

IsFeatureCall(e) == e.site \in FeatureSites

IsCytoCall(e) == e.site \in CytoSites

IsNeighborhoodCall(e) == e.fn = "ComputeNeighborhoodMask"

IsLabelProps(e) == e.fn = "regionprops" /\ e.mask.name = "im_label"

IsCytoProps(e) == e.fn = "regionprops" /\ e.mask.name = "cyto_mask"

\* C1: in every returned table the columns come in the documented group
\* order morphometry, FSD, nucleus intensity, cytoplasm intensity, nucleus
\* gradient, cytoplasm gradient: a column of an earlier group never follows
\* a column of a later group.
C1_ColumnOrder ==
    \A k \in DOMAIN results :
        results[k].kind = "returned" =>
            \A i, j \in DOMAIN results[k].fdata.columns :
                i < j => Rank(results[k].fdata.columns[i].site)
                             <= Rank(results[k].fdata.columns[j].site)

C1_Witness ==
    /\ Done
    /\ Last.kind = "returned"
    /\ OutSites(Last.fdata) = FeatureSites

\* C2: without a cytoplasm image no cytoplasm collaborator (neighbourhood
\* mask, cytoplasm intensity, cytoplasm gradient) is invoked, no returned
\* column starts with Cytoplasm, the cytoplasm mask is never read while
\* undefined, and the only failures are a failing nucleus collaborator or
\* the empty concatenation of a call with every flag off.
C2_NoCytoplasmWithoutImage ==
    im_cytoplasm = "None" =>
        /\ \A i \in DOMAIN log :
              ~IsCytoCall(log[i]) /\ ~IsNeighborhoodCall(log[i])
              /\ log[i].mask.name # "cyto_mask"
        /\ \A k \in DOMAIN results :
              /\ \A i \in DOMAIN results[k].fdata.columns :
                    Head(results[k].fdata.columns[i].name) # "Cytoplasm"
              /\ results[k].error.type # "UnboundLocalError"
              /\ results[k].kind = "raised" =>
                    \/ /\ results[k].error.type = "CollaboratorError"
                       /\ results[k].error.site = fault
                       /\ fault \notin CytoSites
                    \/ /\ results[k].error.type = "ValueError"
                       /\ NoFlags

C2_Witness ==
    /\ Done
    /\ im_cytoplasm = "None"
    /\ intensity_features_flag
    /\ gradient_features_flag
    /\ Last.kind = "returned"
    /\ fault \in CytoSites

\* C3: the groups contributing columns to a returned table are exactly the
\* enabled ones (the cytoplasm groups needing a cytoplasm image as well),
\* each contributing its columns once; a disabled group's collaborator is
\* never invoked and an enabled one is invoked at most once.
C3_ExactlyEnabledGroups ==
    /\ \A i \in DOMAIN log :
          IsFeatureCall(log[i]) => log[i].site \in EnabledSites
    /\ \A i, j \in DOMAIN log : log[i].site = log[j].site => i = j
    /\ Done /\ Last.kind = "returned" =>
          /\ OutSites(Last.fdata) = EnabledSites
          /\ \A s \in EnabledSites :
                /\ Cardinality(LogIndexes(LAMBDA e : e.site = s)) = 1
                /\ \A i \in LogIndexes(LAMBDA e : e.site = s) :
                      Len(ColumnsOf(Last.fdata, s)) = Len(log[i].ret)

C3_Witness ==
    /\ Done
    /\ Last.kind = "returned"
    /\ EnabledSites = {"fsd", "grad_nuc", "grad_cyto"}

\* C4: a call with all four flags off (and no failing collaborator) returns
\* a table with no columns and one row per distinct positive label.
C4_EmptyTableWhenNoGroups ==
    Done /\ NoFlags /\ fault = "none" =>
        /\ Last.kind = "returned"
        /\ Last.fdata.columns = <<>>
        /\ Last.fdata.index = Cardinality(Labels(im_label))

\* the names a prefix is expected to give to the columns a routine returned
Expected(prefix, ret) == [i \in DOMAIN ret |-> <<prefix>> \o ret[i]]

NamesOf(t, s) ==
    [i \in DOMAIN ColumnsOf(t, s) |-> ColumnsOf(t, s)[i].name]

\* C5: in a returned table the nucleus intensity and gradient columns are
\* the routine's names with Nucleus prepended once, the cytoplasm intensity
\* and gradient columns the routine's names with Cytoplasm prepended once,
\* and the morphometry and FSD columns keep the names returned.
C5_ExactPrefix ==
    Done /\ Last.kind = "returned" =>
        \A i \in DOMAIN log :
            IsFeatureCall(log[i]) =>
                NamesOf(Last.fdata, log[i].site) =
                    CASE log[i].site \in {"int_nuc", "grad_nuc"} ->
                            Expected("Nucleus", log[i].ret)
                      [] log[i].site \in {"int_cyto", "grad_cyto"} ->
                            Expected("Cytoplasm", log[i].ret)
                      [] OTHER -> log[i].ret

C5_Witness ==
    /\ Done
    /\ Last.kind = "returned"
    /\ {"morph", "int_nuc", "int_cyto", "grad_cyto"} \subseteq OutSites(Last.fdata)

\* C6: when the tables are merged they all have the same rows, one per
\* distinct positive label of the label image in ascending order, and the
\* returned table has that many rows.
C6_SharedRowIndex ==
    /\ pc = "l169" =>
          \A i \in DOMAIN feature_list :
              heap[feature_list[i]].rows = SortedSeq(Labels(im_label))
    /\ Done /\ Last.kind = "returned" =>
          Last.fdata.index = Cardinality(Labels(im_label))

\* C7: a collaborator that fails is the last one invoked in the call, no
\* collaborator is invoked twice, and the call ends by raising that
\* collaborator's error as raised, returning no table.
C7_FailureAborts ==
    /\ \A i \in DOMAIN log :
          /\ log[i].site = fault => log[i].raised
          /\ log[i].raised => i = Len(log) /\ Done
    /\ \A i, j \in DOMAIN log : log[i].site = log[j].site => i = j
    /\ Done /\ log # <<>> /\ log[Len(log)].raised =>
          /\ Last.kind = "raised"
          /\ Last.fdata = NoTable
          /\ Last.error = CollaboratorError(log[Len(log)].site)

C7_Witness ==
    /\ Done
    /\ Last.kind = "raised"
    /\ fault = "grad_nuc"
    /\ Len(feature_list) >= 3

\* C8: every call with the same arguments ends with the same outcome: the
\* same columns in the same order, the same rows and values, or the same
\* error.
C8_Idempotent ==
    \A j, k \in DOMAIN results : results[j] = results[k]

C8_Witness ==
    /\ Len(results) >= 2
    /\ results[2].kind = "returned"
    /\ {"int_nuc", "int_cyto"} \subseteq OutSites(results[2].fdata)

\* C9: the property list of the label image is computed first in every
\* call and only once; every nucleus-mask routine is passed that list and
\* no cytoplasm-mask routine is.
C9_NucleiPropsOnceAndShared ==
    /\ log # <<>> => LogIndexes(IsLabelProps) = {1}
    /\ \A i \in DOMAIN log :
          IsFeatureCall(log[i]) =>
              IF log[i].mask.name = "im_label"
              THEN /\ log[i].site \notin CytoSites
                   /\ log[i].rprops = nuclei_props
                   /\ nuclei_props = [def |-> TRUE, mask |-> "im_label",
                                      labels |-> SortedSeq(Labels(im_label))]
              ELSE /\ log[i].site \in CytoSites
                   /\ log[i].rprops = [def |-> FALSE]

C9_Witness ==
    /\ Done
    /\ Last.kind = "returned"
    /\ AllFlags
    /\ HasCytoplasm
    /\ Cardinality(Labels(im_label)) >= 2

\* C10: once the feature groups are reached, the neighbourhood mask and its
\* property list have been computed exactly when a cytoplasm image was
\* given, once each, from the label image with cyto_width, before every
\* feature routine; every cytoplasm-group call is given that mask and the
\* cytoplasm image.
C10_CytoMaskDerivation ==
    /\ Cardinality(LogIndexes(IsNeighborhoodCall)) <= 1
    /\ Cardinality(LogIndexes(IsCytoProps)) <= 1
    /\ pc \in {"l116", "l123", "l131", "l141", "l150", "l160", "l169"} =>
          IF im_cytoplasm = "None"
          THEN LogIndexes(IsNeighborhoodCall) = {} /\ LogIndexes(IsCytoProps) = {}
          ELSE /\ LogIndexes(IsNeighborhoodCall) = {2}
               /\ log[2].mask = [def |-> TRUE, name |-> "im_label", px |-> im_label]
               /\ log[2].extra = <<cyto_width>>
               /\ LogIndexes(IsCytoProps) = {3}
               /\ log[3].mask = cyto_mask
               /\ cyto_mask.px = ComputeNeighborhoodMask(im_label, cyto_width)
    /\ \A i \in DOMAIN log :
          /\ IsFeatureCall(log[i]) => i > (IF im_cytoplasm = "None" THEN 1 ELSE 3)
          /\ IsCytoCall(log[i]) =>
                /\ log[i].mask = [def |-> TRUE, name |-> "cyto_mask",
                                  px |-> ComputeNeighborhoodMask(im_label, cyto_width)]
                /\ log[i].image = "im_cytoplasm"

C10_Witness ==
    /\ Done
    /\ Last.kind = "returned"
    /\ NoFlags = FALSE
    /\ cyto_width = NarrowWidth
    /\ \E i \in DOMAIN log : IsCytoCall(log[i]) /\ Labels(log[i].mask.px) # {}
    /\ ComputeNeighborhoodMask(im_label, NarrowWidth)
          # ComputeNeighborhoodMask(im_label, DefaultCytoWidth)

====
